---- MODULE Spec2Model ----
(***************************************************************************)
(* Model of ndzip's SYCL scan engine (src/ndzip/sycl_bits.hh):             *)
(*   - known_size_group::distribute_for (work distribution over lanes),    *)
(*   - inclusive_scan_over_group (warp-level base case and recursion),     *)
(*   - hierarchical_inclusive_scan_allocate / hierarchical_inclusive_scan  *)
(*     (host loop submitting reduction and expansion launches, device      *)
(*     executing the groups of each launch in any order),                  *)
(*   - submit_and_profile and measure_duration,                            *)
(*   - the lanes of one group running the reduction kernel body.           *)
(* Arrays are functions over 0..n-1 so that indices are the source's.      *)
(***************************************************************************)
EXTENDS Integers, Sequences, FiniteSets, TLC

VARIABLES
    \* parameters of a run
    granularity,        \* hierarchical_inclusive_scan_granularity
    warp_size,          \* warp_size
    local_size,         \* LocalSize of the group
    op,                 \* the BinaryOp
    verbose,            \* verbose()
    has_profiling,      \* q.has_property<enable_profiling>()
    \* host: hierarchical_inclusive_scan_allocate / hierarchical_inclusive_scan
    input,              \* contents of in_out_buffer before the scan (history)
    in_out_buffer,
    intermediate_bufs,  \* function 0..L-1 -> array
    n_elems,
    pc,                 \* "alloc", "reduce", "expand", "done"
    i,                  \* loop counter of the current for loop
    printed,            \* the [profile] lines printed so far
    units,              \* the work units handed to submit_and_profile so far (history)
    \* device queue
    queue,              \* every launch submitted so far, in submission order
    head,               \* number of launches that have completed
    running,            \* the launch queue[head+1] has started
    pending,            \* groups of the running launch that have not run yet
    level_in,           \* level -> big buffer as its reduction launch found it (history)
    big_before,         \* big buffer as the running launch found it (history)
    access,             \* elements the groups of the running launch touched (history)
    taint,              \* elements whose value was computed from a never-written slot (history)
    \* one group-local scan
    gs_Range, gs_acc, gs_out, gs_pc,
    \* one distribute_for over the lanes of a group
    df_range, df_iter, df_partial, df_calls,
    \* the lanes of one group running the reduction kernel
    ln_Range, ln_prog, ln_region, ln_iter, ln_log,
    \* one measure_duration call
    md_args, md_out, md_pc

vars == <<granularity, warp_size, local_size, op, verbose, has_profiling,
          printed, input, in_out_buffer,
          intermediate_bufs, n_elems, pc, i, queue, head, running, pending,
          level_in, big_before, access, taint, units,
          gs_Range, gs_acc, gs_out, gs_pc,
          df_range, df_iter, df_partial, df_calls,
          ln_Range, ln_prog, ln_region, ln_iter, ln_log, md_args, md_out, md_pc>>

params == <<granularity, warp_size, local_size, op, verbose, has_profiling>>
hostVars == <<printed, input, in_out_buffer, intermediate_bufs, n_elems, pc, i, queue,
              head, running, pending, level_in, big_before, access, taint,
              units>>
gsVars == <<gs_Range, gs_acc, gs_out, gs_pc>>
dfVars == <<df_range, df_iter, df_partial, df_calls>>
lnVars == <<ln_Range, ln_prog, ln_region, ln_iter, ln_log>>
mdVars == <<md_args, md_out, md_pc>>

\* ------------------------------------------------------------------ bounds
\* scalar values of the input arrays are 0..MaxVal
MaxVal == 1
\* the in/out array has at most MaxLen elements
MaxLen == 6
\* granularities 2..MaxG are explored
MaxG == 3
\* the warp size of the hierarchical runs (the device's warp_size, scaled down)
HierWarp == 2
\* warps per work-group in the hierarchical runs (local_size / warp_size)
HierLocalWarps == 2
\* group-local scans are explored for Range in 0..MaxRange
MaxRange == 5
\* ... for warp sizes 2..MaxWarp
MaxWarp == 3
\* ... and for LocalSize = k * warp_size, k in 1..MaxLocalWarps
MaxLocalWarps == 2
\* distribute_for is explored for ranges 0..MaxDistRange
MaxDistRange == 6
\* ... and LocalSize in 1..MaxDistLocal
MaxDistLocal == 3
\* timestamps are TimeBits bits wide instead of 64
TimeBits == 3
\* measure_duration is called with 1..MaxArgs arguments
MaxArgs == 2
\* an event list holds at most MaxEvents events
MaxEvents == 1

Values == 0..MaxVal

\* the binary operators: three commutative ones and the two projections,
\* which are associative but not commutative
Ops == {"plus", "max", "min", "first", "last"}

\* BinaryOp op: op(a, b)
Apply(o, a, b) ==
    CASE o = "plus" -> a + b
      [] o = "max" -> IF a > b THEN a ELSE b
      [] o = "min" -> IF a < b THEN a ELSE b
      [] o = "first" -> a
      [] o = "last" -> b

\* marker of a buffer element that was allocated and never written
Undef == -1

\* ------------------------------------------------------------ gpu_common.hh
div_ceil(a, b) == (a + b - 1) \div b

ceil(a, b) == div_ceil(a, b) * b

\* ----------------------------------------------- the sequential reference
\* out[i] = op(in[0], ..., in[i]) applied in index order
RECURSIVE SeqScanAt(_, _, _)
SeqScanAt(o, in, k) ==
    IF k = 0 THEN in[0] ELSE Apply(o, SeqScanAt(o, in, k - 1), in[k])

SeqScan(o, in) == [k \in DOMAIN in |-> SeqScanAt(o, in, k)]

\* ------------------------------------------------------ distribute_for
num_full_iterations(range, LocalSize) == range \div LocalSize

partial_iteration_length(range, LocalSize) == range % LocalSize

ItemOf(iteration, LocalSize, tid) == iteration * LocalSize + tid

\* the guard of the final partial iteration
PartialGuardOff(tid, range, LocalSize) == tid < LocalSize
PartialGuard(tid, range, LocalSize) ==
    tid < partial_iteration_length(range, LocalSize)

\* every invocation invoke_f(f, item, iteration, ...) that distribute_for
\* makes over the lanes of one group
DistCalls(range, LocalSize) ==
    LET nfi == num_full_iterations(range, LocalSize)
    IN  {[tid |-> t, item |-> ItemOf(it, LocalSize, t), iteration |-> it] :
            t \in 0..(LocalSize - 1), it \in 0..(nfi - 1)}
        \cup
        {[tid |-> t, item |-> ItemOf(nfi, LocalSize, t), iteration |-> nfi] :
            t \in {u \in 0..(LocalSize - 1) : PartialGuard(u, range, LocalSize)}}

\* ------------------------------------------- inclusive_scan_over_group
\* op-fold, in lane order, of the values of the calls in S (one sub-group,
\* one iteration)
RECURSIVE FoldLanes(_, _, _)
FoldLanes(o, vals, S) ==
    LET m == CHOOSE c \in S : \A d \in S : d.tid <= c.tid
    IN  IF S = {m} THEN vals[m]
        ELSE Apply(o, FoldLanes(o, vals, S \ {m}), vals[m])

\* sycl::inclusive_scan_over_group(sg, a, op): the lanes of one warp that
\* take part in the same iteration form the sub-group; lane c receives the
\* scan up to and including itself
sub_group_scan(o, ws, calls, vals, c) ==
    FoldLanes(o, vals, {d \in calls : /\ d.iteration = c.iteration
                                      /\ d.tid \div ws = c.tid \div ws
                                      /\ d.tid <= c.tid})

\* item < Range ? acc[item] : 0 -- the accessor is read only in range
ReadsAcc(item, Range) == item < Range

PadRead(acc, item, Range) == IF ReadsAcc(item, Range) THEN acc[item] ELSE 0

\* if (item < Range) { acc[item] = b; }
BaseWritesAlways(item, Range) == TRUE
BaseWrites(item, Range) == item < Range

\* value = op(value, coarse[item / warp_size - 1])
CombineCarry(o, value, carry) == Apply(o, value, carry)

\* the array acc after the calls in wr have stored b[c] at acc[c.item]
Store(acc, wr, b) ==
    [k \in DOMAIN acc \cup {c.item : c \in wr} |->
        IF \E c \in wr : c.item = k
        THEN b[CHOOSE c \in wr : c.item = k]
        ELSE acc[k]]

\* distribute_for<ceil(Range, warp_size)>: the passes that call the
\* sub-group scan run over Range rounded up to whole warps
CollectiveRangeExact(Range, ws) == Range
CollectiveRange(Range, ws) == ceil(Range, ws)

\* value_type fine[div_ceil(Range, LocalSize)]
FineSize(Range, LocalSize) == div_ceil(Range, LocalSize)

\* Value memory[div_ceil(Range, warp_size)]
LocalMemory(Range, ws) == div_ceil(Range, ws)

\* inclusive_scan_local_allocation<Value, div_ceil(Range, warp_size)> next
NextRangeFloor(Range, ws) == Range \div ws
NextRange(Range, ws) == div_ceil(Range, ws)

\* inclusive_scan_local_allocation<Value, Range>: the number of elements of
\* memory and the nested allocation; empty for Range <= warp_size
RECURSIVE inclusive_scan_local_allocation(_, _)
inclusive_scan_local_allocation(Range, ws) ==
    IF Range <= ws THEN [Range |-> Range, memory |-> 0]
    ELSE [Range |-> Range, memory |-> LocalMemory(Range, ws),
          next |-> inclusive_scan_local_allocation(NextRange(Range, ws), ws)]

\* if (item % warp_size == warp_size - 1)
WritesCoarse(item, ws) == item % ws = ws - 1

\* coarse[item / warp_size] = fine[iteration]
CoarseSlot(item, ws) == item \div ws

\* if (item >= warp_size)
ReadsCoarse(item, ws) == item >= ws

\* coarse[item / warp_size - 1]
CarrySlot(item, ws) == item \div ws - 1

\* Range <= warp_size
ScanBase(Range, LocalSize, ws, acc, o) ==
    LET calls == DistCalls(CollectiveRange(Range, ws), LocalSize)
        a == [c \in calls |-> PadRead(acc, c.item, Range)]
        b == [c \in calls |-> sub_group_scan(o, ws, calls, a, c)]
        wr == {c \in calls : BaseWrites(c.item, Range)}
    IN  [acc |-> Store(acc, wr, b),
         reads |-> {c.item : c \in {d \in calls : ReadsAcc(d.item, Range)}},
         writes |-> {c.item : c \in wr},
         levels |-> {[Range |-> Range, collective |-> calls,
                      memory |-> inclusive_scan_local_allocation(Range, ws).memory,
                      fine_size |-> 0, fine |-> {},
                      coarse_w |-> {}, coarse_r |-> {}]}]

\* both overloads; the result is the accessor's new contents, the sets of
\* accessor indices read and written and, for each recursion level, the
\* calls that entered the sub-group scan, the sizes of fine and of
\* lm.memory, and the indices of fine and coarse that were used
RECURSIVE inclusive_scan_over_group(_, _, _, _, _)
inclusive_scan_over_group(Range, LocalSize, ws, acc, o) ==
    IF Range <= ws THEN ScanBase(Range, LocalSize, ws, acc, o)
    ELSE
    LET lm == inclusive_scan_local_allocation(Range, ws)
        calls == DistCalls(CollectiveRange(Range, ws), LocalSize)
        a == [c \in calls |-> PadRead(acc, c.item, Range)]
        \* fine[iteration] of lane tid
        fine == [c \in calls |-> sub_group_scan(o, ws, calls, a, c)]
        last == [k \in 0..(lm.memory - 1) |->
                    {c \in calls : WritesCoarse(c.item, ws)
                                   /\ CoarseSlot(c.item, ws) = k}]
        coarse0 == [k \in 0..(lm.memory - 1) |->
                    IF last[k] = {} THEN Undef
                    ELSE fine[CHOOSE c \in last[k] : TRUE]]
        sub == inclusive_scan_over_group(lm.next.Range, LocalSize, ws,
                                         coarse0, o)
        coarse == sub.acc
        calls2 == DistCalls(Range, LocalSize)
        value == [c \in calls2 |->
                    IF ReadsCoarse(c.item, ws)
                    THEN CombineCarry(o, fine[c], coarse[CarrySlot(c.item, ws)])
                    ELSE fine[c]]
    IN  [acc |-> Store(acc, calls2, value),
         reads |-> {c.item : c \in {d \in calls : ReadsAcc(d.item, Range)}},
         writes |-> {c.item : c \in calls2},
         levels |-> sub.levels \cup
                    {[Range |-> Range, collective |-> calls,
                      memory |-> lm.memory,
                      fine_size |-> FineSize(Range, LocalSize),
                      fine |-> {c.iteration : c \in calls \cup calls2},
                      coarse_w |-> {CoarseSlot(c.item, ws) :
                                      c \in {d \in calls : WritesCoarse(d.item, ws)}},
                      coarse_r |-> {CarrySlot(c.item, ws) :
                                      c \in {d \in calls2 : ReadsCoarse(d.item, ws)}}]}]


\* ------------------------------------------------------------ arrays
count(buf) == Cardinality(DOMAIN buf)

\* std::vector::emplace_back of a buffer of n elements, none written yet
emplace_back(bufs, n) ==
    [k \in 0..count(bufs) |->
        IF k < count(bufs) THEN bufs[k] ELSE [j \in 0..(n - 1) |-> Undef]]

EmptyArray == [k \in {} |-> 0]

\* ------------------------------ hierarchical_inclusive_scan_allocate
\* while (n_elems > 1)
AllocGuardG(n) == n > granularity
AllocGuard(n) == n > 1

\* intermediate_bufs.emplace_back(ceil(n_elems, granularity))
AllocSizeExact(n) == n
AllocSize(n) == ceil(n, granularity)

\* n_elems = div_ceil(n_elems, granularity)
AllocNextFloor(n) == n \div granularity
AllocNext(n) == div_ceil(n, granularity)

AllocStep ==
    /\ pc = "alloc"
    /\ AllocGuard(n_elems)
    /\ n_elems' = AllocNext(n_elems)
    /\ intermediate_bufs' = emplace_back(intermediate_bufs, AllocSize(n_elems'))
    /\ UNCHANGED <<params, printed, units, access, taint, input, in_out_buffer, pc, i, queue, head, running,
                   pending, level_in, big_before, gsVars, dfVars, lnVars, mdVars>>

AllocReturn ==
    /\ pc = "alloc"
    /\ ~AllocGuard(n_elems)
    /\ pc' = "reduce"
    /\ i' = 0
    /\ UNCHANGED <<params, printed, units, access, taint, input, in_out_buffer, intermediate_bufs, n_elems,
                   queue, head, running, pending, level_in, big_before,
                   gsVars, dfVars, lnVars, mdVars>>

\* ---------------------------------------- hierarchical_inclusive_scan
\* a buffer is named by its index in intermediate_bufs; InOut names
\* in_out_buffer
InOut == -1

Buffer(b) == IF b = InOut THEN in_out_buffer ELSE intermediate_bufs[b]

\* big_buffer = i > 0 ? intermediate_bufs[i - 1] : in_out_buffer
BigOf(level) == IF level > 0 THEN level - 1 ELSE InOut

\* small_buffer = intermediate_bufs[i]
SmallOf(level) == level

\* ii = intermediate_bufs.size() - 1 - i
ExpansionLevelAscending(L, k) == k - 1
ExpansionLevel(L, k) == L - 1 - k

\* for (index_type i = 1; ...
ExpansionFirstZero == 1 - 1
ExpansionFirst == 1

\* group_range = div_ceil(big_buffer.get_count(), granularity)
ReductionGroups(n) == div_ceil(n, granularity)

\* group_range = div_ceil(big_buffer.get_count(), granularity) - 1
ExpansionGroupsAll(n) == div_ceil(n, granularity)
ExpansionGroups(n) == div_ceil(n, granularity) - 1

ReduceLaunch(level) ==
    [kind |-> "reduce", level |-> level, big |-> BigOf(level),
     small |-> SmallOf(level),
     groups |-> ReductionGroups(count(Buffer(BigOf(level))))]

ExpandLaunch(level) ==
    [kind |-> "expand", level |-> level, big |-> BigOf(level),
     small |-> SmallOf(level),
     groups |-> ExpansionGroups(count(Buffer(BigOf(level))))]

\* submit_and_profile: verbose() && q.has_property<enable_profiling>()
InstrumentedIfVerbose == verbose
Instrumented == verbose /\ has_profiling

\* the label of a launch
Label(launch) == <<launch.kind, launch.level>>

\* submit_and_profile(queue, label, cgf) up to q.submit: the work is
\* submitted in either branch; the profiling branch goes on to
\* measure_duration, which waits for the event
SubmitAndProfileTwice(launch, loop) ==
    /\ units' = Append(units, Label(launch))
    /\ queue' = IF Instrumented THEN Append(Append(queue, launch), launch)
                ELSE Append(queue, launch)
    /\ IF Instrumented
       THEN pc' = "profile" /\ i' = i
       ELSE pc' = loop /\ i' = i + 1
    /\ UNCHANGED printed
SubmitAndProfile(launch, loop) ==
    /\ units' = Append(units, Label(launch))
    /\ queue' = Append(queue, launch)
    /\ IF Instrumented
       THEN pc' = "profile" /\ i' = i
       ELSE pc' = loop /\ i' = i + 1
    /\ UNCHANGED printed

SubmitReduce ==
    /\ pc = "reduce"
    /\ i < count(intermediate_bufs)
    /\ SubmitAndProfile(ReduceLaunch(i), "reduce")
    /\ UNCHANGED <<params, access, taint, input, in_out_buffer, intermediate_bufs, n_elems,
                   head, running, pending, level_in, big_before,
                   gsVars, dfVars, lnVars, mdVars>>

\* the rest of submit_and_profile's profiling branch: the event's
\* timestamps are available once the launch has completed; one line is
\* printed and the loop goes on
Profile ==
    /\ pc = "profile"
    /\ head = Len(queue)
    /\ printed' = Append(printed, Label(queue[Len(queue)]))
    /\ pc' = queue[Len(queue)].kind
    /\ i' = i + 1
    /\ UNCHANGED <<params, units, access, taint, input, in_out_buffer, intermediate_bufs, n_elems,
                   queue, head, running, pending, level_in, big_before,
                   gsVars, dfVars, lnVars, mdVars>>

ReduceLoopExit ==
    /\ pc = "reduce"
    /\ ~(i < count(intermediate_bufs))
    /\ pc' = "expand"
    /\ i' = ExpansionFirst
    /\ UNCHANGED <<params, printed, units, access, taint, input, in_out_buffer, intermediate_bufs, n_elems,
                   queue, head, running, pending, level_in, big_before,
                   gsVars, dfVars, lnVars, mdVars>>

SubmitExpand ==
    /\ pc = "expand"
    /\ i < count(intermediate_bufs)
    /\ SubmitAndProfile(
         ExpandLaunch(ExpansionLevel(count(intermediate_bufs), i)), "expand")
    /\ UNCHANGED <<params, access, taint, input, in_out_buffer, intermediate_bufs, n_elems,
                   head, running, pending, level_in, big_before,
                   gsVars, dfVars, lnVars, mdVars>>

ExpandLoopExit ==
    /\ pc = "expand"
    /\ ~(i < count(intermediate_bufs))
    /\ pc' = "done"
    /\ UNCHANGED <<params, printed, units, access, taint, input, in_out_buffer, intermediate_bufs, n_elems,
                   i, queue, head, running, pending, level_in, big_before,
                   gsVars, dfVars, lnVars, mdVars>>

\* ------------------------------------------------------------ device
Current == queue[head + 1]

\* buffer b holds the array a and buffer b2 the array a2 afterwards
WriteBuffers(b, a, b2, a2) ==
    /\ in_out_buffer' = IF b = InOut THEN a
                        ELSE IF b2 = InOut THEN a2 ELSE in_out_buffer
    /\ intermediate_bufs' =
         [k \in DOMAIN intermediate_bufs |->
            IF k = b THEN a ELSE IF k = b2 THEN a2 ELSE intermediate_bufs[k]]

\* the elements of buf that were never written
UndefSlots(buf) == {k \in DOMAIN buf : buf[k] = Undef}

\* the queue starts its next launch once the previous one has completed
\* (the accessors of consecutive launches overlap, so the runtime orders
\* them); elements read before anything wrote them hold arbitrary values
StartLaunch ==
    /\ ~running
    /\ head < Len(queue)
    /\ \E fill \in [UndefSlots(Buffer(Current.big)) -> Values] :
         LET big == [k \in DOMAIN Buffer(Current.big) |->
                        IF k \in DOMAIN fill THEN fill[k]
                        ELSE Buffer(Current.big)[k]]
         IN  /\ WriteBuffers(Current.big, big, Current.big, big)
             /\ big_before' = big
             /\ taint' = taint \cup {<<Current.big, k>> : k \in DOMAIN fill}
             /\ level_in' = IF Current.kind = "reduce"
                            THEN [l \in DOMAIN level_in \cup {Current.level} |->
                                    IF l = Current.level THEN big ELSE level_in[l]]
                            ELSE level_in
    /\ running' = TRUE
    /\ pending' = 0..(Current.groups - 1)
    /\ access' = {}
    /\ UNCHANGED <<params, printed, units, input, n_elems, pc, i, queue, head, gsVars, dfVars, lnVars, mdVars>>

\* the G elements of buf starting at base
Block(buf, base) == [j \in 0..(granularity - 1) |-> buf[base + j]]

\* buf with the G elements starting at base replaced by blk
WithBlock(buf, base, blk) ==
    [k \in DOMAIN buf |->
        IF k >= base /\ k < base + granularity THEN blk[k - base] ELSE buf[k]]

\* grp.single_item([&] { small = big[granularity - 1]; })
BlockTotalFirst(blk) == blk[0]
BlockTotal(blk) == blk[granularity - 1]

\* the accesses of group g in mode m ("r" or "w") to the elements ks of
\* buffer b
Touch(g, m, b, ks) == {<<g, m, b, k>> : k \in ks}

\* whether element k of buffer b was computed from a never-written slot,
\* as 0 or 1; the scan of these flags under max gives the flags of the
\* scanned values
Tainted(b, k) == IF <<b, k>> \in taint \/ Buffer(b)[k] = Undef THEN 1 ELSE 0

\* Scalar *big = &big_acc[group_index * granularity]
ReductionBase(g) == g * granularity

\* Scalar &small = small_acc[group_index]
SmallSlot(g) == g

\* the flags Tainted of the G elements of buffer b starting at base, after
\* the group scan; the scan of a block of zeros is that block
TaintScan(b, base) ==
    LET tblock == [j \in 0..(granularity - 1) |-> Tainted(b, base + j)]
    IN  IF \A j \in DOMAIN tblock : tblock[j] = 0 THEN tblock
        ELSE inclusive_scan_over_group(granularity, local_size, warp_size,
                                       tblock, "max").acc

\* hierarchical_inclusive_scan_reduction_kernel, group g
ReductionGroup(g) ==
    /\ running
    /\ Current.kind = "reduce"
    /\ g \in pending
    /\ \E r \in {inclusive_scan_over_group(granularity, local_size, warp_size,
                     Block(Buffer(Current.big), ReductionBase(g)), op)},
          tscan \in {TaintScan(Current.big, ReductionBase(g))} :
         LET big == Buffer(Current.big)
             base == ReductionBase(g)
             scanned == r.acc
             small == [Buffer(Current.small) EXCEPT
                          ![SmallSlot(g)] = BlockTotal(scanned)]
             blk == {<<Current.big, base + j>> : j \in 0..(granularity - 1)}
         IN  /\ WriteBuffers(Current.big, WithBlock(big, base, scanned),
                             Current.small, small)
             /\ access' = access
                  \cup Touch(g, "r", Current.big, {base + k : k \in r.reads})
                  \cup Touch(g, "w", Current.big, {base + k : k \in r.writes})
                  \cup Touch(g, "r", Current.big, {base + granularity - 1})
                  \cup Touch(g, "w", Current.small, {SmallSlot(g)})
             /\ taint' = (taint \ (blk \cup {<<Current.small, SmallSlot(g)>>}))
                  \cup {<<Current.big, base + j>> :
                          j \in {k \in 0..(granularity - 1) : tscan[k] = 1}}
                  \cup (IF BlockTotal(tscan) = 1
                        THEN {<<Current.small, SmallSlot(g)>>} ELSE {})
    /\ pending' = pending \ {g}
    /\ UNCHANGED <<params, printed, units, input, n_elems, pc, i, queue, head, running,
                   level_in, big_before, gsVars, dfVars, lnVars, mdVars>>

\* Scalar *big = &big_acc[(group_index + 1) * granularity]
ExpansionBase(g) == (g + 1) * granularity

\* Scalar small = small_acc[group_index]
CarryIndexNext(g) == g + 1
CarryIndex(g) == g

\* big[i] = op(big[i], small)
ExpandValue(o, value, small) == Apply(o, value, small)

\* hierarchical_inclusive_scan_expansion_kernel, group g
ExpansionGroup(g) ==
    /\ running
    /\ Current.kind = "expand"
    /\ g \in pending
    /\ LET big == Buffer(Current.big)
           base == ExpansionBase(g)
           small == Buffer(Current.small)[CarryIndex(g)]
           calls == DistCalls(granularity, local_size)
           items == {c.item : c \in calls}
           blk == [j \in 0..(granularity - 1) |->
                     IF j \in items
                     THEN ExpandValue(op, big[base + j], small)
                     ELSE big[base + j]]
           tblk == {<<Current.big, base + j>> :
                      j \in {k \in items :
                               ExpandValue("max", Tainted(Current.big, base + k),
                                   Tainted(Current.small, CarryIndex(g))) = 1}}
       IN  /\ WriteBuffers(Current.big, WithBlock(big, base, blk),
                           Current.big, WithBlock(big, base, blk))
           /\ access' = access
                \cup Touch(g, "r", Current.small, {CarryIndex(g)})
                \cup Touch(g, "r", Current.big, {base + j : j \in items})
                \cup Touch(g, "w", Current.big, {base + j : j \in items})
           /\ taint' = (taint \ {<<Current.big, base + j>> : j \in items})
                \cup tblk
    /\ pending' = pending \ {g}
    /\ UNCHANGED <<params, printed, units, input, n_elems, pc, i, queue, head, running,
                   level_in, big_before, gsVars, dfVars, lnVars, mdVars>>

FinishLaunch ==
    /\ running
    /\ pending = {}
    /\ running' = FALSE
    /\ head' = head + 1
    /\ UNCHANGED <<params, printed, units, access, taint, input, in_out_buffer, intermediate_bufs, n_elems,
                   pc, i, queue, pending, level_in, big_before, gsVars, dfVars, lnVars, mdVars>>

\* --------------------------------------------------- the scan, end to end
\* the two scenario inputs
ScenarioSum == [k \in 0..7 |-> k + 1]
ScenarioMax == [k \in 0..7 |->
    CASE k = 0 -> 3 [] k = 1 -> 1 [] k = 2 -> 4 [] k = 3 -> 1
      [] k = 4 -> 5 [] k = 5 -> 9 [] k = 6 -> 2 [] k = 7 -> 6]
\* the scenarios' granularity is 4
ScenarioRuns ==
    {[G |-> 4, op |-> "plus", in |-> ScenarioSum,
      verbose |-> FALSE, has_profiling |-> FALSE],
     [G |-> 4, op |-> "max", in |-> ScenarioMax,
      verbose |-> FALSE, has_profiling |-> FALSE]}

\* the operators of the hierarchical runs
HierOps == {"plus", "max", "first"}

\* every operator runs without instrumentation, and addition also runs under
\* each setting of verbose() and of the queue's profiling property
HierRuns ==
    {[op |-> o, verbose |-> FALSE, has_profiling |-> FALSE] : o \in HierOps}
    \cup {[op |-> "plus", verbose |-> v, has_profiling |-> p] : v, p \in BOOLEAN}

InitRun(G, r, in) ==
    /\ granularity = G
    /\ verbose = r.verbose
    /\ has_profiling = r.has_profiling
    /\ printed = << >>
    /\ warp_size = HierWarp
    /\ local_size = HierLocalWarps * HierWarp
    /\ op = r.op
    /\ input = in
    /\ in_out_buffer = in
    /\ intermediate_bufs = EmptyArray
    /\ n_elems = count(in)
    /\ pc = "alloc"
    /\ i = 0
    /\ queue = << >>
    /\ head = 0
    /\ running = FALSE
    /\ pending = {}
    /\ level_in = EmptyArray
    /\ big_before = EmptyArray
    /\ access = {}
    /\ taint = {}
    /\ units = << >>

IdleGroupScan ==
    /\ gs_Range = 0 /\ gs_acc = EmptyArray /\ gs_out = EmptyArray /\ gs_pc = "off"

IdleDist ==
    /\ df_range = 0 /\ df_iter = EmptyArray /\ df_partial = EmptyArray
    /\ df_calls = << >>

IdleLanes ==
    /\ ln_Range = 0 /\ ln_prog = << >>
    /\ ln_region = EmptyArray /\ ln_iter = EmptyArray /\ ln_log = {}

IdleMeasure ==
    /\ md_args = << >> /\ md_out = EmptyArray /\ md_pc = "off"

Init ==
    /\ \/ \E G \in 2..MaxG, r \in HierRuns :
            \E N \in {n \in 0..MaxLen : n % G = 0} :
                \E in \in [0..(N - 1) -> Values] : InitRun(G, r, in)
       \/ \E r \in ScenarioRuns : InitRun(r.G, r, r.in)
    /\ IdleGroupScan
    /\ IdleDist
    /\ IdleLanes
    /\ IdleMeasure

Next ==
    \/ AllocStep
    \/ AllocReturn
    \/ SubmitReduce
    \/ Profile
    \/ ReduceLoopExit
    \/ SubmitExpand
    \/ ExpandLoopExit
    \/ StartLaunch
    \/ \E g \in pending : ReductionGroup(g)
    \/ \E g \in pending : ExpansionGroup(g)
    \/ FinishLaunch

Spec == Init /\ [][Next]_vars

\* the scan has returned and the queue has drained
Done == pc = "done" /\ head = Len(queue) /\ ~running


\* ------------------------------------------- one group-local scan
\* the parameters no group-local scan or distribute_for reads
IdleHost ==
    /\ granularity = 2
    /\ verbose = FALSE
    /\ has_profiling = FALSE
    /\ printed = << >>
    /\ input = EmptyArray
    /\ in_out_buffer = EmptyArray
    /\ intermediate_bufs = EmptyArray
    /\ n_elems = 0
    /\ pc = "off"
    /\ i = 0
    /\ queue = << >>
    /\ head = 0
    /\ running = FALSE
    /\ pending = {}
    /\ level_in = EmptyArray
    /\ big_before = EmptyArray
    /\ access = {}
    /\ taint = {}
    /\ units = << >>

InitGroupScan ==
    /\ warp_size \in 2..MaxWarp
    /\ \E k \in 1..MaxLocalWarps : local_size = k * warp_size
    /\ op \in Ops
    /\ gs_Range \in 0..MaxRange
    /\ gs_acc \in [0..(gs_Range - 1) -> Values]
    /\ gs_out = [acc |-> gs_acc, reads |-> {}, writes |-> {}, levels |-> {}]
    /\ gs_pc = "call"
    /\ IdleHost
    /\ IdleDist
    /\ IdleLanes
    /\ IdleMeasure

\* inclusive_scan_over_group<Range, LocalSize>(grp, acc, lm, op)
GroupScan ==
    /\ gs_pc = "call"
    /\ gs_out' = inclusive_scan_over_group(gs_Range, local_size, warp_size,
                                           gs_acc, op)
    /\ gs_pc' = "done"
    /\ UNCHANGED <<params, hostVars, gs_Range, gs_acc, dfVars, lnVars, mdVars>>

NextGroupScan == GroupScan

SpecGroupScan == InitGroupScan /\ [][NextGroupScan]_vars

\* ------------------------------------ one distribute_for, lane by lane
InitDist ==
    /\ local_size \in 1..MaxDistLocal
    /\ warp_size = 2
    /\ op = "plus"
    /\ df_range \in 0..MaxDistRange
    /\ df_iter = [t \in 0..(local_size - 1) |-> 0]
    /\ df_partial = [t \in 0..(local_size - 1) |-> FALSE]
    /\ df_calls = << >>
    /\ IdleHost
    /\ IdleGroupScan
    /\ IdleLanes
    /\ IdleMeasure

\* invoke_f(f, item, iteration, idx, sg) by lane tid
invoke_f(tid, item, iteration) ==
    df_calls' = Append(df_calls, [tid |-> tid, item |-> item,
                                  iteration |-> iteration])

\* one pass of lane tid through the loop over the full iterations
FullIteration(tid) ==
    /\ ~df_partial[tid]
    /\ df_iter[tid] < num_full_iterations(df_range, local_size)
    /\ invoke_f(tid, ItemOf(df_iter[tid], local_size, tid), df_iter[tid])
    /\ df_iter' = [df_iter EXCEPT ![tid] = df_iter[tid] + 1]
    /\ UNCHANGED <<params, hostVars, gsVars, df_range, df_partial, lnVars, mdVars>>

\* distribute_for_partial_iteration by lane tid, after its loop
PartialIteration(tid) ==
    /\ ~df_partial[tid]
    /\ ~(df_iter[tid] < num_full_iterations(df_range, local_size))
    /\ IF PartialGuard(tid, df_range, local_size)
       THEN invoke_f(tid,
                ItemOf(num_full_iterations(df_range, local_size), local_size, tid),
                num_full_iterations(df_range, local_size))
       ELSE UNCHANGED df_calls
    /\ df_partial' = [df_partial EXCEPT ![tid] = TRUE]
    /\ UNCHANGED <<params, hostVars, gsVars, df_range, df_iter, lnVars, mdVars>>

NextDist ==
    \/ \E tid \in DOMAIN df_iter : FullIteration(tid)
    \/ \E tid \in DOMAIN df_iter : PartialIteration(tid)

SpecDist == InitDist /\ [][NextDist]_vars


\* ------------------------- the lanes of one group, reduction kernel body
\* the calls of sycl::group::distribute_for and single_item that the
\* kernel body makes for a block of Range elements, in program order:
\* inclusive_scan_over_group at depth 0 scans the block (array 0), at
\* depth d + 1 the coarse array of depth d (array d + 1)
RECURSIVE ScanRegions(_, _, _)
ScanRegions(Range, ws, depth) ==
    IF Range <= ws
    THEN << [kind |-> "base", depth |-> depth, Range |-> Range,
             n |-> CollectiveRange(Range, ws)] >>
    ELSE << [kind |-> "fine", depth |-> depth, Range |-> Range,
             n |-> CollectiveRange(Range, ws)] >>
         \o ScanRegions(inclusive_scan_local_allocation(Range, ws).next.Range,
                        ws, depth + 1)
         \o << [kind |-> "fixup", depth |-> depth, Range |-> Range,
                n |-> Range] >>

\* inclusive_scan_over_group(grp, big, lm[0], op); grp.single_item(...):
\* the program of every lane, held in ln_prog
KernelRegions ==
    ScanRegions(ln_Range, warp_size, 0)
    \o << [kind |-> "single", depth |-> 0, Range |-> ln_Range, n |-> 1] >>

\* the array that receives the block total
SmallArray == 0 - 1

\* the invocations of the callback that region r makes
RegionCalls(r) ==
    IF ln_prog[r].kind = "single"
    THEN {[tid |-> 0, item |-> 0, iteration |-> 0]}
    ELSE DistCalls(ln_prog[r].n, local_size)

\* the memory accesses <<region, mode, array, index>> of call c of region r
CallEvents(r, c) ==
    LET reg == ln_prog[r]
        d == reg.depth
    IN  CASE reg.kind = "base" ->
               (IF ReadsAcc(c.item, reg.Range)
                THEN {<<r, "r", d, c.item>>} ELSE {})
               \cup (IF BaseWrites(c.item, reg.Range)
                     THEN {<<r, "w", d, c.item>>} ELSE {})
          [] reg.kind = "fine" ->
               (IF ReadsAcc(c.item, reg.Range)
                THEN {<<r, "r", d, c.item>>} ELSE {})
               \cup (IF WritesCoarse(c.item, warp_size)
                     THEN {<<r, "w", d + 1, CoarseSlot(c.item, warp_size)>>}
                     ELSE {})
          [] reg.kind = "fixup" ->
               (IF ReadsCoarse(c.item, warp_size)
                THEN {<<r, "r", d + 1, CarrySlot(c.item, warp_size)>>}
                ELSE {})
               \cup {<<r, "w", d, c.item>>}
          [] reg.kind = "single" ->
               {<<r, "r", 0, reg.Range - 1>>, <<r, "w", SmallArray, 0>>}

\* the calls lane tid still has to make in its region
Remaining(tid) ==
    IF ln_region[tid] > Len(ln_prog) THEN {}
    ELSE {c \in RegionCalls(ln_region[tid]) :
            c.tid = tid /\ c.iteration >= ln_iter[tid]}

\* the group-wide barrier that ends group::distribute_for and
\* group::single_item: a lane leaves region r once every lane has made all
\* its calls of region r
Barrier(r) ==
    \A u \in DOMAIN ln_region :
        \/ ln_region[u] > r
        \/ ln_region[u] = r /\ Remaining(u) = {}

InitLanes ==
    /\ warp_size \in 2..MaxWarp
    /\ \E k \in 1..MaxLocalWarps : local_size = k * warp_size
    /\ op = "plus"
    /\ ln_Range \in 1..MaxRange
    /\ ln_prog = KernelRegions
    /\ ln_region = [t \in 0..(local_size - 1) |-> 1]
    /\ ln_iter = [t \in 0..(local_size - 1) |-> 0]
    /\ ln_log = {}
    /\ IdleHost
    /\ IdleGroupScan
    /\ IdleDist
    /\ IdleMeasure

\* lane tid makes its next call of the region it is in
LaneCall(tid) ==
    /\ Remaining(tid) # {}
    /\ LET c == CHOOSE x \in Remaining(tid) :
                  \A y \in Remaining(tid) : x.iteration <= y.iteration
       IN  /\ ln_log' = ln_log \cup CallEvents(ln_region[tid], c)
           /\ ln_iter' = [ln_iter EXCEPT ![tid] = c.iteration + 1]
    /\ UNCHANGED <<params, hostVars, gsVars, dfVars, mdVars, ln_Range, ln_prog, ln_region>>

\* lane tid returns from the region it is in and enters the next one
LaneLeave(tid) ==
    /\ ln_region[tid] <= Len(ln_prog)
    /\ Remaining(tid) = {}
    /\ Barrier(ln_region[tid])
    /\ ln_region' = [ln_region EXCEPT ![tid] = ln_region[tid] + 1]
    /\ ln_iter' = [ln_iter EXCEPT ![tid] = 0]
    /\ UNCHANGED <<params, hostVars, gsVars, dfVars, mdVars, ln_Range, ln_prog, ln_log>>

NextLanes ==
    \/ \E tid \in DOMAIN ln_region : LaneCall(tid)
    \/ \E tid \in DOMAIN ln_region : LaneLeave(tid)

SpecLanes == InitLanes /\ [][NextLanes]_vars


\* ------------------------------------------------------ measure_duration
\* UINT64_MAX, at the width of the model's timestamps
UINT64_MAX == 2 ^ TimeBits - 1

\* the timestamps an event can report: both ends of the range and one
\* value in between
Times == {0, 1, UINT64_MAX}

\* a profiled event: command_start and command_end; nothing orders them
Events == [start : Times, end : Times]

\* the arguments: a single sycl::event or a std::vector<sycl::event>
Arguments ==
    {[single |-> TRUE, events |-> <<e>>] : e \in Events}
    \cup {[single |-> FALSE, events |-> es] :
            es \in UNION {[1..n -> Events] : n \in 0..MaxEvents}}

\* std::min, std::max
Min(a, b) == IF b < a THEN b ELSE a
Max(a, b) == IF a < b THEN b ELSE a

\* uint64_t start = UINT64_MAX; for (auto &evt : events) start = std::min(...)
RECURSIVE StartLoopMax(_, _)
StartLoopMax(events, n) ==
    IF n = 0 THEN UINT64_MAX
    ELSE Max(StartLoopMax(events, n - 1), events[n].start)
RECURSIVE StartLoop(_, _)
StartLoop(events, n) ==
    IF n = 0 THEN UINT64_MAX
    ELSE Min(StartLoop(events, n - 1), events[n].start)

\* uint64_t end = 0; for (auto &evt : events) end = std::max(...)
RECURSIVE EndLoop(_, _)
EndLoop(events, n) ==
    IF n = 0 THEN 0
    ELSE Max(EndLoop(events, n - 1), events[n].end)

\* both overloads
earliest_event_start(arg) ==
    IF arg.single THEN arg.events[1].start
    ELSE StartLoop(arg.events, Len(arg.events))

\* both overloads
latest_event_end(arg) ==
    IF arg.single THEN arg.events[1].end
    ELSE EndLoop(arg.events, Len(arg.events))

\* std::min<uint64_t>({...}), std::max<uint64_t>({...}) of a non-empty list
RECURSIVE MinList(_, _)
MinList(xs, n) == IF n = 1 THEN xs[1] ELSE Min(MinList(xs, n - 1), xs[n])
RECURSIVE MaxList(_, _)
MaxList(xs, n) == IF n = 1 THEN xs[1] ELSE Max(MaxList(xs, n - 1), xs[n])

\* late - early in uint64_t
Sub64(a, b) == (a - b + 2 ^ TimeBits) % (2 ^ TimeBits)

measure_duration(args) ==
    LET early == MinList([k \in 1..Len(args) |->
                            earliest_event_start(args[k])], Len(args))
        late == MaxList([k \in 1..Len(args) |->
                           latest_event_end(args[k])], Len(args))
    IN  [early |-> early, late |-> late, duration |-> Sub64(late, early)]

InitMeasure ==
    /\ warp_size = 2
    /\ local_size = 2
    /\ op = "plus"
    /\ md_args \in UNION {[1..n -> Arguments] : n \in 1..MaxArgs}
    /\ md_out = EmptyArray
    /\ md_pc = "call"
    /\ IdleHost
    /\ IdleGroupScan
    /\ IdleDist
    /\ IdleLanes

MeasureDuration ==
    /\ md_pc = "call"
    /\ md_out' = measure_duration(md_args)
    /\ md_pc' = "done"
    /\ UNCHANGED <<params, hostVars, gsVars, dfVars, lnVars, md_args>>

NextMeasure == MeasureDuration

SpecMeasure == InitMeasure /\ [][NextMeasure]_vars


\* ================================================================ claims
Levels == count(intermediate_bufs)

\* the launches submitted so far, as <<kind, level>>
Submitted == [k \in 1..Len(queue) |-> Label(queue[k])]

\* ---------------------------------------------------------------- C1
\* C1: for every associative operator, commutative or not, once the scan
\* has run all its launches element k of the in/out array is
\* op(in[0], ..., in[k]) applied in index order.
C1_ScanAnyAssociativeOp ==
    Done => in_out_buffer = SeqScan(op, input)

\* ---------------------------------------------------------------- C2
RECURSIVE SumTo(_, _)
SumTo(in, k) == IF k = 0 THEN in[0] ELSE SumTo(in, k - 1) + in[k]

RECURSIVE MaxTo(_, _)
MaxTo(in, k) ==
    IF k = 0 THEN in[0]
    ELSE IF in[k] > MaxTo(in, k - 1) THEN in[k] ELSE MaxTo(in, k - 1)

ScenarioSumOut == <<1, 3, 6, 10, 15, 21, 28, 36>>
ScenarioMaxOut == <<3, 3, 4, 4, 5, 9, 9, 9>>

\* C2: under integer addition the scan leaves out[k] = in[0] + ... + in[k]
\* and under max it leaves out[k] = max(in[0..k]), for every length that is
\* a multiple of G; with G = 4 the two scenario inputs give the stated
\* outputs.
C2_SumAndMax ==
    Done =>
      /\ DOMAIN in_out_buffer = DOMAIN input
      /\ op = "plus" => \A k \in DOMAIN input : in_out_buffer[k] = SumTo(input, k)
      /\ op = "max" => \A k \in DOMAIN input : in_out_buffer[k] = MaxTo(input, k)
      /\ (granularity = 4 /\ op = "plus" /\ input = ScenarioSum)
            => \A k \in 0..7 : in_out_buffer[k] = ScenarioSumOut[k + 1]
      /\ (granularity = 4 /\ op = "max" /\ input = ScenarioMax)
            => \A k \in 0..7 : in_out_buffer[k] = ScenarioMaxOut[k + 1]

\* the sum scenario has run to the end over two blocks and two levels
C2_Witness ==
    /\ Done
    /\ granularity = 4 /\ op = "plus" /\ input = ScenarioSum
    /\ Levels = 2
    /\ Len(queue) = 3
    /\ in_out_buffer[7] = 36

\* ---------------------------------------------------------------- C3
\* C3: for Range <= warp_size the base case leaves the sequential inclusive
\* scan of exactly the Range elements in acc[0..Range-1], whatever value
\* pads the lanes beyond Range, and touches no accessor index >= Range.
C3_BaseCase ==
    (gs_pc = "done" /\ gs_Range <= warp_size) =>
      /\ gs_out.acc = SeqScan(op, gs_acc)
      /\ gs_out.writes = 0..(gs_Range - 1)
      /\ gs_out.reads = 0..(gs_Range - 1)

\* a base-case scan with padded lanes, under an operator (min) for which the
\* padding value 0 is no identity
C3_Witness ==
    /\ gs_pc = "done"
    /\ gs_Range >= 2 /\ gs_Range < warp_size
    /\ local_size > warp_size
    /\ op = "min"
    /\ \A k \in DOMAIN gs_acc : gs_acc[k] = 1
    /\ gs_out.acc[gs_Range - 1] = 1

\* ---------------------------------------------------------------- C4
\* C4: for Range > warp_size the recursive scan gives, for every admissible
\* LocalSize, the same output, which is the sequential inclusive scan of the
\* Range elements.
C4_Recursive ==
    (gs_pc = "done" /\ gs_Range > warp_size) =>
      /\ gs_out.acc = SeqScan(op, gs_acc)
      /\ \A k \in 1..MaxLocalWarps :
            inclusive_scan_over_group(gs_Range, k * warp_size, warp_size,
                                      gs_acc, op).acc = gs_out.acc

\* ---------------------------------------------------------------- C5
DistDone == local_size = count(df_partial) /\ \A t \in DOMAIN df_partial : df_partial[t]

\* C5: distribute_for invokes the callback exactly once for each item in
\* [0, R) and for no other; lane t gets the items t, t + LocalSize, ... with
\* iteration = item / LocalSize, and in the final partial iteration only the
\* lanes t < R mod LocalSize are invoked; no two lanes get the same item.
C5_Distribute ==
    /\ \A k \in 1..Len(df_calls) :
          /\ df_calls[k].item \in 0..(df_range - 1)
          /\ df_calls[k].item % local_size = df_calls[k].tid
          /\ df_calls[k].item \div local_size = df_calls[k].iteration
          /\ df_calls[k].iteration = df_range \div local_size
                => df_calls[k].tid < df_range % local_size
    /\ \A j, k \in 1..Len(df_calls) :
          df_calls[j].item = df_calls[k].item => j = k
    /\ DistDone =>
          {df_calls[k].item : k \in 1..Len(df_calls)} = 0..(df_range - 1)

\* all lanes are through a range with full iterations and a partial one
C5_Witness ==
    /\ DistDone
    /\ local_size >= 2
    /\ df_range > local_size
    /\ df_range % local_size # 0
    /\ Len(df_calls) = df_range

\* ---------------------------------------------------------------- C6
ExpansionRunning == running /\ Current.kind = "expand"

\* C6: in an expansion launch every element of block b >= 1 becomes
\* op(its block-local scan value, carry), the carry being element b-1 of the
\* next-smaller buffer, which by then holds the final inclusive scan of all
\* elements of blocks 0..b-1 of the level; block 0 stays as it was.
C6_Carry ==
    ExpansionRunning =>
      LET big == Buffer(Current.big)
          small == Buffer(Current.small)
          G == granularity
      IN  /\ \A j \in 0..(G - 1) : big[j] = big_before[j]
          /\ \A g \in 0..(Current.groups - 1) :
                /\ small[g] = SeqScanAt(op, level_in[Current.level],
                                        (g + 1) * G - 1)
                /\ \A j \in 0..(G - 1) :
                      big[(g + 1) * G + j] =
                        IF g \in pending THEN big_before[(g + 1) * G + j]
                        ELSE Apply(op, big_before[(g + 1) * G + j], small[g])

\* ---------------------------------------------------------------- C7
\* n_0 = N, n_k = ceil(n_{k-1} / G)
RECURSIVE ClaimN(_, _, _)
ClaimN(N, G, k) ==
    IF k = 0 THEN N
    ELSE LET p == ClaimN(N, G, k - 1)
         IN  CHOOSE q \in 0..p : q * G >= p /\ (q = 0 \/ (q - 1) * G < p)

\* the next multiple of G at or above n
NextMultiple(n, G) ==
    CHOOSE m \in n..(n + G) : m % G = 0 /\ \A m2 \in n..(m - 1) : m2 % G # 0

\* the first k >= 1 with n_k = 1 (an empty array has no such k and gets no
\* buffer)
ClaimLevels(N, G) ==
    IF N = 0 THEN 0
    ELSE CHOOSE k \in 1..N :
            ClaimN(N, G, k) = 1 /\ \A j \in 1..(k - 1) : ClaimN(N, G, j) # 1

\* C7: the chain that hierarchical_inclusive_scan_allocate returns is
\* determined by N and G alone: buffer k (k = 1, 2, ...) has n_k rounded up
\* to a multiple of G elements, and buffers exist up to and including the
\* first k with n_k = 1 and none after it.
C7_Chain ==
    (pc = "reduce" /\ i = 0 /\ queue = << >>) =>
      LET N == count(input)
          G == granularity
      IN  /\ Levels = ClaimLevels(N, G)
          /\ \A k \in 1..Levels :
                count(intermediate_bufs[k - 1]) = NextMultiple(ClaimN(N, G, k), G)

\* the chain of a six-element array at G = 2: 4, 2 and 2 elements
C7_Witness ==
    /\ pc = "reduce"
    /\ granularity = 2
    /\ count(input) = 6
    /\ Levels = 3
    /\ count(intermediate_bufs[0]) = 4
    /\ count(intermediate_bufs[1]) = 2
    /\ count(intermediate_bufs[2]) = 2

\* ---------------------------------------------------------------- C8
SingleBlock == pc # "off" /\ count(input) = granularity

\* C8 as stated: a single-block array gets a chain with zero intermediate
\* levels.
C8_ZeroLevels ==
    (SingleBlock /\ pc # "alloc") => Levels = 0

\* C8 amended: a single-block array gets a chain of exactly one buffer of G
\* elements; the scan is one reduction launch of one group and no expansion
\* launch, and the output is the group-local inclusive scan of the block.
C8_SingleBlock ==
    SingleBlock =>
      /\ pc # "alloc" => (Levels = 1 /\ count(intermediate_bufs[0]) = granularity)
      /\ Done =>
           /\ Submitted = << <<"reduce", 0>> >>
           /\ queue[1].groups = 1
           /\ in_out_buffer = inclusive_scan_over_group(granularity, local_size,
                                  warp_size, input, op).acc

\* a single-block scan has finished and changed the array
C8_Witness ==
    /\ SingleBlock
    /\ Done
    /\ Levels = 1
    /\ in_out_buffer # input

\* ---------------------------------------------------------------- C9
\* C9: submissions are the reduction launches for levels 0, 1, ..., L-1 in
\* ascending order, then expansion launches in strictly descending level
\* order; no expansion is submitted before the last reduction, and the
\* reduction at level i > 0 takes as input the buffer that the reduction at
\* level i-1 wrote.
C9_Order ==
    /\ \A k \in 1..Len(queue) :
          /\ queue[k].kind = "reduce" => queue[k].level = k - 1
          /\ queue[k].kind = "expand" =>
                /\ k > Levels
                /\ \A j \in 1..Levels : queue[j].kind = "reduce"
          /\ (queue[k].kind = "reduce" /\ queue[k].level > 0) =>
                /\ queue[k - 1].kind = "reduce"
                /\ queue[k].big = queue[k - 1].small
    /\ \A j, k \in 1..Len(queue) :
          (j < k /\ queue[j].kind = "expand") =>
                /\ queue[k].kind = "expand"
                /\ queue[k].level < queue[j].level

\* a three-level scan has submitted three reductions and two expansions
C9_Witness ==
    /\ pc = "done"
    /\ Levels = 3
    /\ Len(queue) = 5
    /\ queue[3].kind = "reduce"
    /\ queue[4].kind = "expand"

\* ---------------------------------------------------------------- C10
ReduceLevels == {queue[k].level : k \in {j \in 1..Len(queue) : queue[j].kind = "reduce"}}
ExpandLevels == {queue[k].level : k \in {j \in 1..Len(queue) : queue[j].kind = "expand"}}

\* C10 as stated: the expansion phase covers every level that the reduction
\* phase covered, L-1 down to 0.
C10_ExpandEveryLevel ==
    pc = "done" => (ReduceLevels = 0..(Levels - 1) /\ ExpandLevels = ReduceLevels)

\* C10 amended: one reduction launch per level 0..L-1, then one expansion
\* launch per level L-2 down to 0; the top level L-1 gets none.
C10_ExpandBelowTop ==
    pc = "done" =>
      /\ Len(queue) = Levels + (IF Levels = 0 THEN 0 ELSE Levels - 1)
      /\ \A k \in 1..Levels : Submitted[k] = <<"reduce", k - 1>>
      /\ \A k \in 1..(Levels - 1) :
            Submitted[Levels + k] = <<"expand", Levels - 1 - k>>

\* a scan over several levels has submitted everything
C10_Witness ==
    /\ pc = "done"
    /\ Levels >= 2
    /\ ExpandLevels = 0..(Levels - 2)

\* ------------------------------------------------ groups of one launch
\* the elements of block b of a buffer
BlockSlots(b) == {b * granularity + j : j \in 0..(granularity - 1)}

\* C11: while a reduction or expansion launch runs, whatever groups have
\* run so far and in whatever order, no element is written by two groups
\* and none is read by one group and written by another; a reduction
\* group g touches only block g of the big buffer and writes only slot g
\* of the small buffer, an expansion group g touches only block g+1 of
\* the big buffer and reads only slot g of the small buffer, and the two
\* buffers are distinct
C11_GroupsDisjoint ==
    running =>
        /\ Current.big # Current.small
        /\ \A a, b \in access :
              (a[1] # b[1] /\ a[3] = b[3] /\ a[4] = b[4])
                  => (a[2] = "r" /\ b[2] = "r")
        /\ \A a \in access :
              IF Current.kind = "reduce"
              THEN \/ a[3] = Current.big /\ a[4] \in BlockSlots(a[1])
                   \/ a[3] = Current.small /\ a[2] = "w" /\ a[4] = a[1]
              ELSE \/ a[3] = Current.big /\ a[4] \in BlockSlots(a[1] + 1)
                   \/ a[3] = Current.small /\ a[2] = "r" /\ a[4] = a[1]

\* every group of an expansion launch with at least two groups has run
C11_Witness ==
    /\ running
    /\ Current.kind = "expand"
    /\ Current.groups >= 2
    /\ pending = {}
    /\ \E a \in access : a[1] = 1 /\ a[2] = "w"
    /\ \E a \in access : a[1] = 0 /\ a[2] = "r" /\ a[3] = Current.small

\* the first element of the block of group g of launch l
BaseOf(l, g) ==
    IF l.kind = "reduce" THEN ReductionBase(g) ELSE ExpansionBase(g)

\* the small-buffer slot of group g of launch l
SlotOf(l, g) ==
    IF l.kind = "reduce" THEN SmallSlot(g) ELSE CarryIndex(g)

\* C12: for N a multiple of G and the chain built by
\* hierarchical_inclusive_scan_allocate, every group of every submitted
\* launch addresses big-buffer elements base + j, j < G, below the big
\* buffer's element count and a small-buffer slot below the small buffer's
\* element count, and every element a group has touched lies inside its
\* buffer
C12_IndicesInside ==
    /\ \A n \in (head + 1)..Len(queue) :
          \A g \in 0..(queue[n].groups - 1) :
              /\ \A j \in 0..(granularity - 1) :
                    BaseOf(queue[n], g) + j < count(Buffer(queue[n].big))
              /\ SlotOf(queue[n], g) < count(Buffer(queue[n].small))
    /\ running =>
          \A a \in access : a[4] >= 0 /\ a[4] < count(Buffer(a[3]))

\* every group of a reduction launch over a padded intermediate buffer
\* has run
C12_Witness ==
    /\ running
    /\ Current.kind = "reduce"
    /\ Current.level >= 1
    /\ Current.groups >= 2
    /\ pending = {}
    /\ \E a \in access : a[4] = count(Buffer(Current.big)) - 1

\* ---------------------------------------------------- submit_and_profile
\* C13: when verbose() is false or the queue lacks the profiling property,
\* however many submit_and_profile calls have been made, no line has been
\* printed, no call waits for timestamps, and every work unit handed to a
\* call is in the queue
C13_QuietWhenOff ==
    ~(verbose /\ has_profiling) =>
        /\ printed = << >>
        /\ pc # "profile"
        /\ Submitted = units

\* five calls were made with verbose() true on a queue without profiling
C13_Witness ==
    /\ Done
    /\ verbose
    /\ ~has_profiling
    /\ Len(units) = 5
    /\ Len(queue) = 5

\* the launches of a scan over the allocated chain, in submission order
AllLaunches ==
    [k \in 1..(Levels + (IF Levels = 0 THEN 0 ELSE Levels - 1)) |->
        IF k <= Levels THEN ReduceLaunch(k - 1)
        ELSE ExpandLaunch(ExpansionLevel(Levels, k - Levels))]

\* C14: in either branch every call has put its work unit in the queue
\* exactly once and in call order; the launches of a finished scan and its
\* result are the same whatever verbose() and the profiling property are;
\* and with both on, one line has been printed per call that returned, in
\* call order
C14_Observational ==
    /\ Submitted = units
    /\ pc = "done" => queue = AllLaunches
    /\ (Done /\ op \in {"plus", "max"}) => in_out_buffer = SeqScan(op, input)
    /\ (verbose /\ has_profiling) =>
          printed = IF pc = "profile"
                    THEN SubSeq(units, 1, Len(units) - 1) ELSE units

\* an instrumented three-level scan has printed its five lines
C14_Witness ==
    /\ Done
    /\ verbose
    /\ has_profiling
    /\ Len(printed) = 5
    /\ printed[5] = <<"expand", 0>>
    /\ in_out_buffer # input

\* ------------------------------------------------------- padding slots
\* C15: the padding slots of the intermediate buffers are never written
\* before a launch scans them, so they hold arbitrary values, and those
\* values flow into every element computed from them; whatever N, the
\* input and the padding hold, no element of the in/out array is ever
\* computed from a padding slot, directly or through block totals and
\* carries
C15_PaddingIsolated ==
    /\ \A t \in taint : t[1] # InOut
    /\ (Done /\ op \in {"plus", "max"}) => in_out_buffer = SeqScan(op, input)

\* a three-level scan has finished; a reduction scanned a padding slot
\* holding a non-zero value and produced a block total from it
C15_Witness ==
    /\ Done
    /\ Levels = 3
    /\ <<1, 1>> \in taint
    /\ \E k \in DOMAIN level_in[1] :
          /\ k >= ReductionGroups(count(input))
          /\ level_in[1][k] # 0

\* ------------------------------------------------- whole warps, scratch
\* the lanes of the warp of lane tid
WarpOf(tid) == {t \in 0..(local_size - 1) : t \div warp_size = tid \div warp_size}

\* C17: at every recursion level of inclusive_scan_over_group and in every
\* iteration of its distribute_for, full or partial, a lane enters the
\* sub-group scan only together with every lane of its warp, for every
\* Range and every LocalSize that is a multiple of warp_size
C17_WholeWarps ==
    gs_pc = "done" =>
        \A lv \in gs_out.levels : \A c \in lv.collective :
            \A t \in WarpOf(c.tid) :
                \E d \in lv.collective :
                    d.tid = t /\ d.iteration = c.iteration

\* a partial iteration that one warp enters, padded lane included, and
\* another warp does not
C17_Witness ==
    /\ gs_pc = "done"
    /\ \E lv \in gs_out.levels : \E c \in lv.collective :
          /\ c.item >= lv.Range
          /\ c.iteration >= 1
          /\ \E t \in 0..(local_size - 1) :
                \A d \in lv.collective : ~(d.tid = t /\ d.iteration = c.iteration)

\* C18: at every recursion level with Range > warp_size, for every
\* LocalSize that is a multiple of warp_size: the indices of fine used in
\* the two passes are exactly 0..div_ceil(Range, LocalSize)-1, the size of
\* fine; lm.memory has div_ceil(Range, warp_size) elements, the coarse
\* indices written are exactly those and the coarse indices read are
\* among them; the recursive call runs on the allocation made for
\* div_ceil(Range, warp_size); and the recursion ends at a level with
\* Range <= warp_size that has no storage and uses none
C18_ScratchSufficient ==
    gs_pc = "done" =>
        /\ \A lv \in gs_out.levels :
              IF lv.Range > warp_size
              THEN /\ lv.fine_size = div_ceil(lv.Range, local_size)
                   /\ lv.fine = 0..(lv.fine_size - 1)
                   /\ lv.memory = div_ceil(lv.Range, warp_size)
                   /\ lv.coarse_w = 0..(lv.memory - 1)
                   /\ lv.coarse_r \subseteq 0..(lv.memory - 1)
                   /\ \E nx \in gs_out.levels :
                         nx.Range = div_ceil(lv.Range, warp_size)
              ELSE /\ lv.memory = 0
                   /\ lv.fine = {}
                   /\ lv.coarse_w = {} /\ lv.coarse_r = {}
        /\ \E lv \in gs_out.levels : lv.Range = gs_Range
        /\ \E lv \in gs_out.levels : lv.Range <= warp_size

\* a scan that recursed twice before reaching a single warp, with fine
\* holding more than one element per lane
C18_Witness ==
    /\ gs_pc = "done"
    /\ Cardinality(gs_out.levels) = 3
    /\ \E lv \in gs_out.levels :
          /\ lv.Range = gs_Range
          /\ lv.fine_size >= 2
          /\ lv.coarse_r # {}

\* ------------------------------------------------ phases of the group scan
\* the regions of the given kind
RegionsOf(kind) == {r \in 1..Len(ln_prog) : ln_prog[r].kind = kind}

\* the fix-up region that belongs to the fine region r
FixupOf(r) ==
    CHOOSE x \in RegionsOf("fixup") : ln_prog[x].depth = ln_prog[r].depth

\* some lane has entered a region after r
Entered(r) == \E t \in DOMAIN ln_region : ln_region[t] > r

\* every lane has made all its calls of region r
Complete(r) ==
    \A t \in DOMAIN ln_region :
        \/ ln_region[t] > r
        \/ ln_region[t] = r /\ Remaining(t) = {}

\* C16: in every interleaving of the lanes of a group, at every recursion
\* level: when a lane enters the recursive scan of coarse, every element
\* of coarse has been written with its warp total; when a lane reads
\* coarse in the fix-up pass, every lane has finished every call of the
\* recursive scan; and when the block total is copied out, the fix-up
\* pass (the warp scan, for a block of at most one warp) has written the
\* block's last element
C16_PhasesSeparated ==
    /\ \A r \in RegionsOf("fine") :
          /\ Entered(r) =>
                \A k \in 0..(LocalMemory(ln_prog[r].Range, warp_size) - 1) :
                    <<r, "w", ln_prog[r].depth + 1, k>> \in ln_log
          /\ (\E e \in ln_log : e[1] = FixupOf(r) /\ e[2] = "r") =>
                \A x \in (r + 1)..(FixupOf(r) - 1) :
                    /\ Complete(x)
                    /\ \A c \in RegionCalls(x) : CallEvents(x, c) \subseteq ln_log
    /\ \A r \in RegionsOf("single") :
          <<r, "w", SmallArray, 0>> \in ln_log =>
              <<r - 1, "w", 0, ln_Range - 1>> \in ln_log

\* the block total of a block that needed two levels of recursion has
\* been copied out
C16_Witness ==
    /\ Len(ln_prog) = 6
    /\ local_size > warp_size
    /\ <<6, "w", SmallArray, 0>> \in ln_log
    /\ \E e \in ln_log : e[1] = 5 /\ e[2] = "r"

\* ------------------------------------------------- the construction loop
\* the smallest L with G^L >= n
MinLevels(n) ==
    CHOOSE L \in 0..n : /\ granularity ^ L >= n
                        /\ \A M \in 0..(L - 1) : granularity ^ M < n

\* C19: for every G >= 2 and N a multiple of G, every iteration of the
\* construction loop strictly decreases the slot count, which stays at
\* least 1, so the loop ends; the chain it returns has the smallest number
\* of levels L with G^L >= N (none for N = 0), and a finished scan has
\* made 2L - 1 launches (none for L = 0)
C19_AllocTerminates ==
    /\ [][(pc = "alloc" /\ pc' = "alloc") =>
              (n_elems' < n_elems /\ n_elems' >= 1
               /\ count(intermediate_bufs') = count(intermediate_bufs) + 1)]_vars
    /\ [](pc \in {"reduce", "profile", "expand", "done"} =>
              (n_elems <= 1 /\ Levels = MinLevels(count(input))))
    /\ [](pc = "done" =>
              Len(queue) = (IF Levels = 0 THEN 0 ELSE 2 * Levels - 1))

\* two iterations of the loop have run on six elements with G = 2 and a
\* third is due
C19_Witness ==
    /\ pc = "alloc"
    /\ granularity = 2
    /\ count(input) = 6
    /\ Levels = 2
    /\ n_elems = 2

\* ------------------------------------------------------ measure_duration
\* every event supplied, as <<argument, position>>
Supplied ==
    {p \in (1..Len(md_args)) \X (1..(MaxEvents + 1)) :
        p[2] <= Len(md_args[p[1]].events)}

EventAt(p) == md_args[p[1]].events[p[2]]

====
